---- MODULE Spec2Model ----
(***************************************************************************)
(* Model of the quote scraper (src/scraper_corrected.py) and of the tag    *)
(* re-split of the reporting stage (src/analyzer_corrected.py).            *)
(*                                                                         *)
(* Texts, authors and tags are sequences of one-character strings.  URLs   *)
(* are strings, only concatenated and tested for emptiness.  Python's None *)
(* is the value None (for URLs) or NoNode (for a node find() did not       *)
(* return).  The timestamp field data_coleta is left out: no operation     *)
(* reads it.                                                               *)
(***************************************************************************)
EXTENDS Integers, Sequences, FiniteSets, TLC

VARIABLES
    quotes_data,    \* self.quotes_data
    pc,             \* position of the caller: idle / loop / returned / raised
    current_url,    \* local current_url of scrape_all_pages
    pages_scraped,  \* local pages_scraped of scrape_all_pages
    max_pages,      \* the argument of the running invocation
    returned,       \* the value the last invocation returned
    runs,           \* invocations of scrape_all_pages started so far
    log,            \* history: one record per fetch attempt of this invocation
    events,         \* history: "fetch" / "sleep" in the order they happened
    doc,            \* the page handed to parse_quote_page (extraction runs)
    quotes,         \* what parse_quote_page returned for doc
    tags_lists,     \* per persisted row, the tags_list of generate_tags_cloud
    stage           \* position of an extraction run: input / parsed / analysed

vars == << quotes_data, pc, current_url, pages_scraped, max_pages, returned,
           runs, log, events, doc, quotes, tags_lists, stage >>

crawlVars == << quotes_data, pc, current_url, pages_scraped, max_pages,
                returned, runs, log, events >>

parseVars == << doc, quotes, tags_lists, stage >>

---------------------------------------------------------------------------
(* Bounds *)

MaxPagesArg == 3

MaxRuns == 2

MaxContainers == 2

---------------------------------------------------------------------------
(* Values *)

None == "<None>"

KeyError == "<KeyError>"

NoNode == << "<None>" >>

NaN == << "<NaN>" >>

Glyph == "\""

Space == " "

Comma == ","

BaseUrl == "http://quotes.toscrape.com"

Truthy(url) == url # None /\ url # ""

---------------------------------------------------------------------------
(* str.strip(chars) with a single character, str.strip(), str.split(),     *)
(* str.join, str.split(sep)                                                *)

RECURSIVE LStrip(_, _)
LStrip(s, ch) ==
    IF s # << >> /\ Head(s) = ch THEN LStrip(Tail(s), ch) ELSE s

RECURSIVE RStrip(_, _)
RStrip(s, ch) ==
    IF s # << >> /\ s[Len(s)] = ch
    THEN RStrip(SubSeq(s, 1, Len(s) - 1), ch)
    ELSE s

Strip(s, ch) == RStrip(LStrip(s, ch), ch)

RECURSIVE TakeWord(_)
TakeWord(s) ==
    IF s = << >> \/ Head(s) = Space THEN << >>
    ELSE << Head(s) >> \o TakeWord(Tail(s))

RECURSIVE SplitWhitespace(_)
SplitWhitespace(s) ==
    LET t == LStrip(s, Space)
    IN  IF t = << >> THEN << >>
        ELSE LET w == TakeWord(t)
             IN  << w >> \o SplitWhitespace(SubSeq(t, Len(w) + 1, Len(t)))

RECURSIVE Join(_, _)
Join(sep, parts) ==
    IF parts = << >> THEN << >>
    ELSE IF Len(parts) = 1 THEN parts[1]
    ELSE parts[1] \o sep \o Join(sep, Tail(parts))

RECURSIVE TakeUntil(_, _)
TakeUntil(s, ch) ==
    IF s = << >> \/ Head(s) = ch THEN << >>
    ELSE << Head(s) >> \o TakeUntil(Tail(s), ch)

RECURSIVE SplitOn(_, _)
SplitOn(s, ch) ==
    LET p == TakeUntil(s, ch)
    IN  IF Len(p) = Len(s) THEN << p >>
        ELSE << p >> \o SplitOn(SubSeq(s, Len(p) + 2, Len(s)), ch)

---------------------------------------------------------------------------
(* parse_quote_page: a page's containers are records                       *)
(*   [text |-> chars or NoNode, author |-> chars or NoNode, tags |-> seq]  *)
(* where NoNode is what find() returns for a node that is not there.       *)

\* A normalization that removes one glyph at each end and no more.
NormalizeOneLayer(text) ==
    LET t == IF text # << >> /\ Head(text) = Glyph THEN Tail(text) ELSE text
    IN  IF t # << >> /\ t[Len(t)] = Glyph THEN SubSeq(t, 1, Len(t) - 1) ELSE t

Normalize(text) == Strip(Strip(text, Glyph), Glyph)

WordCount(text) == Len(SplitWhitespace(text))

\* The try body: .get_text() on a node that is not there raises the
\* AttributeError the except clause turns into "skip this container".
RaisesAttributeError(c) == c.text = NoNode \/ c.author = NoNode

QuoteEntry(c) ==
    LET text == Normalize(c.text)
    IN  [ texto        |-> text,
          autor        |-> c.author,
          tags         |-> Join(<< Comma, Space >>, c.tags),
          num_tags     |-> Len(c.tags),
          num_palavras |-> WordCount(text) ]

\* An extraction that gives up on the page at the first container it cannot
\* read (break where the code has continue).
RECURSIVE ParseQuotePageAbort(_)
ParseQuotePageAbort(quote_divs) ==
    IF quote_divs = << >> THEN << >>
    ELSE IF RaisesAttributeError(Head(quote_divs)) THEN << >>
    ELSE << QuoteEntry(Head(quote_divs)) >>
         \o ParseQuotePageAbort(Tail(quote_divs))

RECURSIVE ParseQuotePage(_)
ParseQuotePage(quote_divs) ==
    IF quote_divs = << >> THEN << >>
    ELSE LET quote_div == Head(quote_divs)
         IN  (IF RaisesAttributeError(quote_div) THEN << >>
              ELSE << QuoteEntry(quote_div) >>)
             \o ParseQuotePage(Tail(quote_divs))

---------------------------------------------------------------------------
(* get_next_page_url: the page's next marker is a record                   *)
(*   [li |-> the li.next element is there, a |-> it holds an anchor,       *)
(*    href |-> the anchor's href, or None when the attribute is missing]   *)
(* The result is the URL, None, or KeyError when next_link['href'] raises. *)

GetNextPageUrl(next) ==
    IF next.li
    THEN IF next.a
         THEN IF next.href = None THEN KeyError ELSE BaseUrl \o next.href
         ELSE None
    ELSE None

---------------------------------------------------------------------------
(* The pages a site may serve in a crawl *)

GoodQuote == [ text   |-> << Glyph, "a", Space, "b", Glyph >>,
               author |-> << "x" >>,
               tags   |-> << << "t" >>, << "u" >> >> ]

NoAuthorQuote == [ text |-> << Glyph, "c", Glyph >>, author |-> NoNode,
                   tags |-> << >> ]

NoTagsQuote == [ text |-> << Glyph, "d", Glyph >>, author |-> << "y" >>,
                 tags |-> << >> ]

SiteQuotes == { << >>, << GoodQuote, NoAuthorQuote >>, << NoTagsQuote >> }

NoMarker == [ li |-> FALSE, a |-> FALSE, href |-> None ]

NextMarkers ==
    { NoMarker,
      [ li |-> TRUE,  a |-> FALSE, href |-> None ],
      [ li |-> TRUE,  a |-> TRUE,  href |-> None ],
      [ li |-> TRUE,  a |-> TRUE,  href |-> "/page/2/" ] }

SitePages == [ quote_divs : SiteQuotes, next : NextMarkers ]

---------------------------------------------------------------------------
(* scrape_all_pages *)

\* A loop test that is off by one.
LoopCondInclusive(url, scraped, limit) == Truthy(url) /\ scraped <= limit

LoopCond(url, scraped, limit) == Truthy(url) /\ scraped < limit

\* Entry to scrape_all_pages: the locals are set, self.quotes_data is not.
\* An invocation follows the construction or an invocation that returned;
\* an exception that escaped ends the caller, which has no handler.
Start(m) ==
    /\ pc \in { "idle", "returned" }
    /\ runs < MaxRuns
    /\ runs' = runs + 1
    /\ max_pages' = m
    /\ current_url' = BaseUrl \o "/page/1/"
    /\ pages_scraped' = 0
    /\ pc' = "loop"
    /\ log' = << >>
    /\ events' = << >>
    /\ UNCHANGED << quotes_data, returned >>
    /\ UNCHANGED parseVars

\* One iteration whose get_page_content returns None (a RequestException
\* was caught) or an empty body: "if not html_content: break", then return.
FetchNothing(kind) ==
    /\ pc = "loop"
    /\ LoopCond(current_url, pages_scraped, max_pages)
    /\ log' = Append(log, [ kind |-> kind, entries |-> << >>,
                            marker |-> NoMarker, next |-> None ])
    /\ events' = Append(events, "fetch")
    /\ returned' = quotes_data
    /\ pc' = "returned"
    /\ UNCHANGED << quotes_data, current_url, pages_scraped, max_pages, runs >>
    /\ UNCHANGED parseVars

\* One iteration whose fetch succeeds with a page.
FetchPage(html) ==
    /\ pc = "loop"
    /\ LoopCond(current_url, pages_scraped, max_pages)
    /\ LET page_quotes == ParseQuotePage(html.quote_divs)
           next_url    == GetNextPageUrl(html.next)
       IN  /\ quotes_data' = quotes_data \o page_quotes
           /\ log' = Append(log, [ kind |-> "page", entries |-> page_quotes,
                                   marker |-> html.next, next |-> next_url ])
           /\ IF next_url = KeyError
              THEN /\ pc' = "raised"
                   /\ events' = Append(events, "fetch")
                   /\ UNCHANGED << current_url, pages_scraped >>
              ELSE /\ current_url' = next_url
                   /\ pages_scraped' = pages_scraped + 1
                   /\ events' = IF Truthy(next_url)
                                THEN events \o << "fetch", "sleep" >>
                                ELSE Append(events, "fetch")
                   /\ pc' = "loop"
    /\ UNCHANGED << max_pages, returned, runs >>
    /\ UNCHANGED parseVars

\* The while condition is false: return self.quotes_data.
Return ==
    /\ pc = "loop"
    /\ ~ LoopCond(current_url, pages_scraped, max_pages)
    /\ returned' = quotes_data
    /\ pc' = "returned"
    /\ UNCHANGED << quotes_data, current_url, pages_scraped, max_pages, runs,
                    log, events >>
    /\ UNCHANGED parseVars

Init ==
    /\ quotes_data = << >>
    /\ pc = "idle"
    /\ current_url = None
    /\ pages_scraped = 0
    /\ max_pages = 0
    /\ returned = << >>
    /\ runs = 0
    /\ log = << >>
    /\ events = << >>
    /\ doc = << >>
    /\ quotes = << >>
    /\ tags_lists = << >>
    /\ stage = "off"

Next ==
    \/ \E m \in 0 .. MaxPagesArg : Start(m)
    \/ \E kind \in { "fail", "empty" } : FetchNothing(kind)
    \/ \E html \in SitePages : FetchPage(html)
    \/ Return

Spec == Init /\ [][Next]_vars

---------------------------------------------------------------------------
(* The reporting stage's reading of the persisted tags column              *)
(* (generate_tags_cloud).  pandas.read_csv reads an empty field as NaN,    *)
(* and the loop skips a row whose tags are NaN.                            *)

ReadCsvField(field) == IF field = << >> THEN NaN ELSE field

TagsList(tags_str) ==
    IF tags_str = NaN THEN << >>
    ELSE LET parts == SplitOn(tags_str, Comma)
         IN  [ i \in 1 .. Len(parts) |-> Strip(parts[i], Space) ]

---------------------------------------------------------------------------
(* Extraction runs: a page is chosen, parse_quote_page is applied to it,   *)
(* the rows are persisted and generate_tags_cloud re-splits their tags.    *)

Texts ==
    { NoNode,
      << >>,
      << Glyph >>,
      << Glyph, "a", Glyph >>,
      << Glyph, Glyph, "a", Glyph, Glyph >>,
      << Glyph, Space, "a", Glyph >>,
      << Glyph, "a", Space, Glyph, "b", Glyph, Space, "c", Glyph >> }

Authors == { NoNode, << "x" >> }

TagSeqs ==
    { << >>,
      << << "a" >> >>,
      << << "a" >>, << "b" >>, << "c" >> >>,
      << << "a", Comma, "b" >> >>,
      << << Space, "a" >>, << "b" >> >>,
      << << >>, << "a" >> >> }

PageContainers ==
    [ text : Texts, author : Authors, tags : { << >>, << << "a" >> >> } ]
    \cup [ text : { NoNode, << Glyph, "a", Glyph >> }, author : Authors,
           tags : TagSeqs ]

PageDocs ==
    UNION { [ 1 .. n -> PageContainers ] : n \in 0 .. MaxContainers }

ParsePage ==
    /\ stage = "input"
    /\ quotes' = ParseQuotePage(doc)
    /\ stage' = "parsed"
    /\ UNCHANGED << doc, tags_lists >>
    /\ UNCHANGED crawlVars

GenerateTagsCloud ==
    /\ stage = "parsed"
    /\ tags_lists' = [ i \in 1 .. Len(quotes) |->
                         TagsList(ReadCsvField(quotes[i].tags)) ]
    /\ stage' = "analysed"
    /\ UNCHANGED << doc, quotes >>
    /\ UNCHANGED crawlVars

InitParse ==
    /\ quotes_data = << >>
    /\ pc = "idle"
    /\ current_url = None
    /\ pages_scraped = 0
    /\ max_pages = 0
    /\ returned = << >>
    /\ runs = 0
    /\ log = << >>
    /\ events = << >>
    /\ doc \in PageDocs
    /\ quotes = << >>
    /\ tags_lists = << >>
    /\ stage = "input"

NextParse ==
    \/ ParsePage
    \/ GenerateTagsCloud

SpecParse == InitParse /\ [][NextParse]_vars

---------------------------------------------------------------------------
(* Properties of the crawl (specification Spec)                            *)

\* The entries extracted from the pages fetched during this invocation.
RECURSIVE LogEntries(_)
LogEntries(l) ==
    IF l = << >> THEN << >> ELSE Head(l).entries \o LogEntries(Tail(l))

\* C1: in one invocation of scrape_all_pages(max_pages), max_pages >= 0,
\* the number of fetch attempts never exceeds max_pages, whatever the pages
\* link to and whichever fetches fail.
C1_FetchAttemptsWithinCeiling == Len(log) <= max_pages

\* C1 witness: an invocation that stopped at the ceiling, every page fetched
\* and the last of them still linking to a next page.
C1_CeilingReachedWithLink ==
    /\ pc = "returned"
    /\ max_pages >= 2
    /\ Len(log) = max_pages
    /\ Truthy(log[Len(log)].next)

\* C2: when pages 1..k were all fetched and page k is the first whose
\* resolver result is absent, the invocation made k fetch attempts and
\* returns the entries of pages 1..k, in page order.
C2_ReturnsEntriesOfPagesOneToK ==
    ( /\ pc = "returned"
      /\ log # << >>
      /\ \A i \in 1 .. Len(log) : log[i].kind = "page"
      /\ \A i \in 1 .. Len(log) - 1 : log[i].next # None
      /\ log[Len(log)].next = None )
    => returned = LogEntries(log)

\* The same statement for the first invocation on a scraper, an empty body
\* counted as a page without entries and without next marker: it holds.
FirstRunReturnsEntriesOfPagesOneToK ==
    ( /\ runs = 1
      /\ pc = "returned"
      /\ log # << >>
      /\ \A i \in 1 .. Len(log) : log[i].kind # "fail"
      /\ \A i \in 1 .. Len(log) - 1 : log[i].next # None
      /\ log[Len(log)].next = None )
    => returned = LogEntries(log)

\* No fetch follows a page whose resolver result was absent or a fetch that
\* failed: such a record is the last of its invocation.
NoFetchAfterAbsentOrFailure ==
    \A i \in 1 .. Len(log) - 1 : log[i].kind = "page" /\ Truthy(log[i].next)

\* C3: when the fetch of page k fails, the invocation returns at once, no
\* exception escapes, and it returns exactly the entries of pages 1..k-1.
C3_FailureReturnsEntriesOfEarlierPages ==
    ( /\ log # << >>
      /\ log[Len(log)].kind = "fail" )
    => /\ pc = "returned"
       /\ returned = LogEntries(SubSeq(log, 1, Len(log) - 1))

\* The same statement for the first invocation on a scraper: it holds.
FirstRunFailureReturnsEntriesOfEarlierPages ==
    runs = 1 => C3_FailureReturnsEntriesOfEarlierPages

\* C4: every pacing sleep lies strictly between two fetch attempts: a
\* finished invocation neither begins nor ends with a sleep.
C4_SleepOnlyBetweenFetches ==
    ( pc = "returned" /\ events # << >> )
    => /\ events[1] = "fetch"
       /\ events[Len(events)] = "fetch"

\* C5: get_next_page_url returns None, without raising, for a page without
\* next marker, with a marker without anchor, or with an anchor that has no
\* link target, and base_url ++ target otherwise; the crawl ends normally.
C5_ResolverNeverRaises ==
    /\ pc # "raised"
    /\ \A i \in 1 .. Len(log) :
          log[i].kind = "page" =>
             LET m == log[i].marker
             IN  IF m.li /\ m.a /\ m.href # None
                 THEN log[i].next = BaseUrl \o m.href
                 ELSE log[i].next = None

\* C9: every invocation starts from empty entries: what it returns are the
\* entries of the pages fetched during that invocation and no others.
C9_ReturnsOnlyThisInvocationsEntries ==
    pc = "returned" => returned = LogEntries(log)

---------------------------------------------------------------------------
(* Properties of the extraction (specification SpecParse)                  *)

HasBothNodes(c) == c.text # NoNode /\ c.author # NoNode

\* The containers of doc that have a text node and an author node, in
\* document order.
Emitting == SelectSeq(doc, HasBothNodes)

\* The number of glyphs a text begins with, and ends with.
LeadingGlyphs(s) ==
    CHOOSE n \in 0 .. Len(s) :
        /\ \A m \in 1 .. n : s[m] = Glyph
        /\ n = Len(s) \/ s[n + 1] # Glyph

TrailingGlyphs(s) ==
    CHOOSE n \in 0 .. Len(s) :
        /\ \A m \in 1 .. n : s[Len(s) + 1 - m] = Glyph
        /\ n = Len(s) \/ s[Len(s) - n] # Glyph

\* The number of whitespace-delimited tokens: the positions where one starts.
TokenStarts(s) ==
    Cardinality({ i \in 1 .. Len(s) :
                    s[i] # Space /\ (i = 1 \/ s[i - 1] = Space) })

\* Whether chars holds sep as a contiguous part.
Contains(chars, sep) ==
    \E i \in 1 .. Len(chars) - Len(sep) + 1 :
        SubSeq(chars, i, i + Len(sep) - 1) = sep

\* C6: every entry parse_quote_page emits has a non-empty text after
\* normalization; a container whose text is empty or only glyphs is dropped.
C6_EmittedTextNonEmpty ==
    stage # "input" => \A j \in 1 .. Len(quotes) : quotes[j].texto # << >>

\* C7: parse_quote_page emits one entry per container that has a text node
\* and an author node, in document order, and none for the others; a
\* container without tags is emitted with empty tags and num_tags = 0; and
\* the entries of a container do not depend on the other containers.
C7_OneEntryPerWellFormedContainer ==
    stage # "input" =>
        /\ Len(quotes) = Len(Emitting)
        /\ \A j \in 1 .. Len(quotes) :
              /\ quotes[j].autor = Emitting[j].author
              /\ quotes[j].num_tags = Len(Emitting[j].tags)
              /\ Emitting[j].tags = << >> => quotes[j].tags = << >>
              /\ quotes[j] = ParseQuotePage(<< Emitting[j] >>)[1]
        /\ \A i \in 1 .. Len(doc) :
              ~ HasBothNodes(doc[i]) => ParseQuotePage(<< doc[i] >>) = << >>

\* C7 witness: a page whose first container lacks a node and whose second
\* is well formed and has no tags; the second alone is emitted.
C7_MalformedThenUntagged ==
    /\ stage = "parsed"
    /\ Len(doc) = 2
    /\ ~ HasBothNodes(doc[1])
    /\ HasBothNodes(doc[2])
    /\ doc[2].tags = << >>
    /\ Len(quotes) = 1
    /\ quotes[1].num_tags = 0

\* C8: for an emitted entry whose tags do not contain the join delimiter,
\* re-splitting the persisted tags as the reporting stage does gives back
\* the tag sequence, and as many tags as the persisted num_tags.
C8_TagsRoundTrip ==
    stage = "analysed" =>
        \A j \in 1 .. Len(quotes) :
            (\A k \in 1 .. Len(Emitting[j].tags) :
                 ~ Contains(Emitting[j].tags[k], << Comma, Space >>))
            => /\ tags_lists[j] = Emitting[j].tags
               /\ Len(tags_lists[j]) = quotes[j].num_tags

\* C10 as stated: a text wrapped in n >= 2 glyphs at each end keeps n - 1
\* of them at each end.
C10_OneLayerRemoved ==
    stage # "input" =>
        \A j \in 1 .. Len(quotes) :
            LET raw == Emitting[j].text
                n   == LeadingGlyphs(raw)
            IN  (n >= 2 /\ TrailingGlyphs(raw) = n /\ Len(raw) > 2 * n)
                => /\ LeadingGlyphs(quotes[j].texto) = n - 1
                   /\ TrailingGlyphs(quotes[j].texto) = n - 1

\* C10 amended: normalization removes every leading and every trailing
\* glyph and nothing else, and num_palavras counts the whitespace-delimited
\* tokens of the normalized text.
C10_AllOuterGlyphsRemoved ==
    stage # "input" =>
        \A j \in 1 .. Len(quotes) :
            LET raw  == Emitting[j].text
                lead == LeadingGlyphs(raw)
                tail == TrailingGlyphs(raw)
            IN  /\ quotes[j].texto =
                      IF lead = Len(raw) THEN << >>
                      ELSE SubSeq(raw, lead + 1, Len(raw) - tail)
                /\ quotes[j].num_palavras = TokenStarts(quotes[j].texto)

\* C10 witness: a text in two layers of glyphs was normalized to its core.
C10_NestedGlyphsParsed ==
    /\ stage = "parsed"
    /\ \E j \in 1 .. Len(quotes) :
          /\ LeadingGlyphs(Emitting[j].text) = 2
          /\ TrailingGlyphs(Emitting[j].text) = 2
          /\ quotes[j].texto = << "a" >>
          /\ quotes[j].num_palavras = 1

====
